---------------------------- MODULE Spec2Model ----------------------------
(***************************************************************************)
(* mdbook-plantuml-renderer: PlantumlRendererPreprocessor::run.            *)
(*                                                                         *)
(* One preprocessor process handles a book: it creates the output          *)
(* directory, walks the book's items, and for every chapter pumps the      *)
(* chapter's event stream through markedit::rewrite_between with a         *)
(* callback that turns each renderable fenced block into an image          *)
(* reference, rendering the diagram with the external plantuml executable  *)
(* unless <sha1>.svg is already in the output directory.  The file system  *)
(* outlives the process, so a behaviour is a sequence of such processes.   *)
(*                                                                         *)
(* The event stream of a chapter is the input of the rewriter.  The        *)
(* parser and the serializer (pulldown_cmark, pulldown_cmark_to_cmark)     *)
(* and the rewriter's iterator (markedit) are libraries; the rewriter is   *)
(* modelled after sections 4.2 and 4.3 of the specification.               *)
(*                                                                         *)
(* Spec is the sequence of processes, SpecTags the same over streams of    *)
(* differently tagged blocks, SpecText the same over chapters in either    *)
(* fence spelling, and SpecRace the callback of several processes at work  *)
(* on one output directory at the same time.                               *)
(***************************************************************************)
EXTENDS Naturals, Sequences, FiniteSets, TLC

(***************************************************************************)
(* Bounds of the model.                                                    *)
(***************************************************************************)
MaxSegs == 2        \* segments (text runs, code blocks) in the whole book
MaxRuns == 2        \* preprocessor processes run one after the other
MaxFaults == 1      \* failing system calls and failing renders in a behaviour
MaxInstances == 2   \* preprocessor processes at work on one output directory at once

(***************************************************************************)
(* Events (pulldown_cmark::Event) and tags.                                *)
(***************************************************************************)
PLANTUML_RENDERABLE_LANGUAGE == "plantuml,render"

Fenced(language) == [tag |-> "CodeBlock", block |-> "Fenced", lang |-> language]

Indented == [tag |-> "CodeBlock", block |-> "Indented"]

Image(dest) == [tag |-> "Image", link |-> "Inline", dest |-> dest, title |-> ""]

Start(t) == [kind |-> "Start", tag |-> t]

End(t) == [kind |-> "End", tag |-> t]

Text(s) == [kind |-> "Text", text |-> s]

SoftBreak == [kind |-> "SoftBreak"]

\* A mutant of renderable_plantuml_start: any fenced block opens a region.
renderable_plantuml_start_anyfence(event) ==
    /\ event.kind = "Start"
    /\ event.tag.tag = "CodeBlock"
    /\ event.tag.block = "Fenced"

renderable_plantuml_start(event) ==
    /\ event.kind = "Start"
    /\ event.tag.tag = "CodeBlock"
    /\ event.tag.block = "Fenced"
    /\ event.tag.lang = PLANTUML_RENDERABLE_LANGUAGE

\* A mutant of renderable_plantuml_end: the start predicate once more.
renderable_plantuml_end_asstart(event) ==
    /\ event.kind = "Start"
    /\ event.tag.tag = "CodeBlock"
    /\ event.tag.block = "Fenced"
    /\ event.tag.lang = PLANTUML_RENDERABLE_LANGUAGE

\* A mutant of renderable_plantuml_end: the end of any fenced block closes.
renderable_plantuml_end_anyfence(event) ==
    /\ event.kind = "End"
    /\ event.tag.tag = "CodeBlock"
    /\ event.tag.block = "Fenced"

renderable_plantuml_end(event) ==
    /\ event.kind = "End"
    /\ event.tag.tag = "CodeBlock"
    /\ event.tag.block = "Fenced"
    /\ event.tag.lang = PLANTUML_RENDERABLE_LANGUAGE

(***************************************************************************)
(* The callback's pure parts.                                              *)
(***************************************************************************)
\* A mutant of plantuml_code_of: the language of a fence is taken for text.
RECURSIVE plantuml_code_of_withtags(_)
plantuml_code_of_withtags(evs) ==
    IF evs = <<>> THEN ""
    ELSE (IF Head(evs).kind = "Text" THEN Head(evs).text
          ELSE IF Head(evs).kind = "Start" /\ Head(evs).tag.tag = "CodeBlock"
                  /\ Head(evs).tag.block = "Fenced"
               THEN Head(evs).tag.lang
               ELSE "")
         \o plantuml_code_of_withtags(Tail(evs))

\* events.iter().map(Text(t) => t, _ => "").collect::<String>()
RECURSIVE plantuml_code_of(_)
plantuml_code_of(evs) ==
    IF evs = <<>> THEN ""
    ELSE (IF Head(evs).kind = "Text" THEN Head(evs).text ELSE "")
         \o plantuml_code_of(Tail(evs))

\* Sha1::input_str, result_str: the hex digest.  SHA-1 has no collision on
\* the texts of the model, so the digest is an injective renaming of them.
Sha1(s) == "sha1[" \o s \o "]"

\* determine_plantuml_output_directory: <root>/<build_dir>/plantuml-renderer
ContextRoot == "/book"

ContextBuildDir == "book"

determine_build_directory == ContextRoot \o "/" \o ContextBuildDir

determine_plantuml_output_directory ==
    determine_build_directory \o "/" \o "plantuml-renderer"

\* PathBuf::push(dir), push(hash), set_extension(ext): the digest holds no dot
WithExtension(dir, hash, ext) == dir \o "/" \o hash \o "." \o ext

svg_filename_of(plantuml_code) ==
    WithExtension(determine_plantuml_output_directory, Sha1(plantuml_code), "svg")

puml_filename_of(plantuml_code) ==
    WithExtension(determine_plantuml_output_directory, Sha1(plantuml_code), "puml")

\* A mutant of image_events: the End Image event is forgotten.
image_events_noend(dest) == << Start(Image(dest)), SoftBreak >>

\* The three events pushed after the (cleared) span.
image_events(dest) == << Start(Image(dest)), End(Image(dest)), SoftBreak >>

(***************************************************************************)
(* Books.  A chapter's content is Markdown text: markedit::parse turns it  *)
(* into events and cmark writes text for events.  The text is kept as its  *)
(* pieces, each with the event it parses to and, where Markdown has more   *)
(* than one spelling for the same event, the spelling: a code fence is a   *)
(* row of backticks or a row of tildes, and the event                      *)
(* Start(CodeBlock(Fenced(language))) carries the language alone.          *)
(***************************************************************************)
FenceSpellings == { "backticks", "tildes" }

IsFence(ev) ==
    /\ ev.kind \in { "Start", "End" }
    /\ ev.tag.tag = "CodeBlock"
    /\ ev.tag.block = "Fenced"

Piece(ev, fence) == [ev |-> ev, fence |-> IF IsFence(ev) THEN fence ELSE ""]

\* The text of a row of events with every fence spelled the same way.
Markdown(evs, fence) == [k \in 1..Len(evs) |-> Piece(evs[k], fence)]

\* The text cmark writes: its fences are backticks.
Content(evs) == [text |-> Markdown(evs, "backticks")]

\* The parser keeps the events and forgets the spelling.
parse(content) == [k \in 1..Len(content.text) |-> content.text[k].ev]

cmark(evs) == Content(evs)

Chapter(n, evs) == [item |-> "Chapter", name |-> n, content |-> Content(evs)]

\* A chapter as its author spelled it.
ChapterText(n, evs, fence) ==
    [item |-> "Chapter", name |-> n, content |-> [text |-> Markdown(evs, fence)]]

Separator == [item |-> "Separator"]

SR == Start(Fenced(PLANTUML_RENDERABLE_LANGUAGE))

ER == End(Fenced(PLANTUML_RENDERABLE_LANGUAGE))

\* The pieces documents are put together from: a text run, two renderable
\* blocks with different diagrams (the second behind a text run), a fenced
\* block with another tag, and a renderable start marker that is never
\* closed.
Segments ==
    { << Text("A") >>,
      << SR, Text("A"), ER >>,
      << Text("A"), SR, Text("B"), ER >>,
      << Start(Fenced("plantuml")), Text("A"), End(Fenced("plantuml")) >>,
      << SR, Text("A") >> }

RECURSIVE DocsOf(_)
DocsOf(n) ==
    IF n = 0 THEN { <<>> }
    ELSE { d \o s : d \in DocsOf(n - 1), s \in Segments }

Books ==
    { << Chapter("c1", d) >> : d \in UNION { DocsOf(n) : n \in 0..MaxSegs } }
    \cup
    UNION { UNION { { << Chapter("c1", d1), Separator, Chapter("c2", d2) >> :
                        d1 \in DocsOf(n1), d2 \in DocsOf(n2) } :
                    n2 \in 0..(MaxSegs - n1) } :
            n1 \in 0..MaxSegs }

\* Books of one chapter, in either spelling, and a separator.
TextBooks ==
    { << ChapterText("c1", d, f), Separator >> :
        d \in UNION { DocsOf(n) : n \in 0..MaxSegs }, f \in FenceSpellings }

\* Documents for the tag comparison: every way of putting up to MaxTagLen of
\* these events in a row.  The tags are the marker, a prefix of it, another
\* case, the marker with more after it, and an indented code block.
MaxTagLen == 3

TagKinds ==
    { Fenced(PLANTUML_RENDERABLE_LANGUAGE), Fenced("plantuml"),
      Fenced("PlantUML,Render"), Fenced("plantuml,render,svg"), Indented }

TagEvents ==
    { Start(k) : k \in TagKinds } \cup { End(k) : k \in TagKinds }
    \cup { Text("A") }

RECURSIVE TagDocsOf(_)
TagDocsOf(n) ==
    IF n = 0 THEN { <<>> }
    ELSE { Append(d, e) : d \in TagDocsOf(n - 1), e \in TagEvents }

TagBooks ==
    { << Chapter("c1", d), Separator >> :
        d \in UNION { TagDocsOf(n) : n \in 0..MaxTagLen } }

(***************************************************************************)
(* The file system under the output directory, the diagnostic channel and  *)
(* the renderer subprocess.                                                *)
(***************************************************************************)
Dir == [dir |-> TRUE]

\* A regular file: its bytes, or (short) some strict prefix of them.
File(bytes, short) == [bytes |-> bytes, short |-> short]

\* The artifact plantuml writes: the picture of what it read.
Rendered(src) == [render_of |-> src]

Exists(f, path) == path \in DOMAIN f

Put(f, path, c) == [q \in DOMAIN f \cup {path} |-> IF q = path THEN c ELSE f[q]]

Count(f, k) == IF k \in DOMAIN f THEN f[k] ELSE 0

\* fern: .level(log::LevelFilter::Debug).chain(stderr())
LogLevels == { "Error", "Warn", "Info", "Debug" }

Log(d, level, msg, arg) ==
    IF level \in LogLevels THEN Append(d, [level |-> level, msg |-> msg, arg |-> arg])
    ELSE d

\* What Command::output() hands back once plantuml has run: the exit status,
\* whether <hash>.svg was written, whether stdout and stderr are UTF-8.
Outputs == [status : {0, 1}, artifact : BOOLEAN, utf8 : BOOLEAN]

\* A panic unwinds out of run and main: the process dies with this message.
Panic(message) == [ok |-> FALSE, panic |-> message]

\* run has not returned.
Pending == [ok |-> FALSE, pending |-> TRUE]

\* plantuml exits with 0, has written the artifact and printed UTF-8.
CleanOutput == [status |-> 0, artifact |-> TRUE, utf8 |-> TRUE]

NoOutput == [status |-> 0, artifact |-> FALSE, utf8 |-> TRUE]

NoRes ==
    [span |-> <<>>, code |-> "", hit |-> FALSE, fsBefore |-> << >>,
     outBefore |-> <<>>, created |-> FALSE, spawned |-> FALSE,
     failed |-> FALSE, readShort |-> FALSE, done |-> FALSE]

NoPrev == [ended |-> "none", book |-> <<>>, misses |-> 0, rendered |-> TRUE]

\* The processes that share the output directory when builds overlap.
Instances == 1..MaxInstances

\* The renderer of an instance has not read its input file.
NoRead == [read |-> FALSE]

VARIABLES
    input,      \* the book handed to every process
    book,       \* the process's book (chapter contents are replaced)
    pc,         \* where the process is
    run,        \* how many processes have been started
    idx,        \* for_each_mut: the current item
    events,     \* the current chapter's event stream
    pos,        \* the next event the rewriter pulls
    inside,     \* span matcher: Inside (TRUE) or Outside (FALSE)
    buffer,     \* the events handed to / left by the callback
    out,        \* the events the rewriter has yielded to cmark
    code,       \* plantuml_code
    output,     \* the renderer's Output, until it is logged
    fs,         \* path -> directory or file
    diag,       \* the logger's lines on stderr since the last span was matched
    result,     \* what run returned
    res,        \* history: the current (or last) resolution
    spawns,     \* history: artifact path -> renderer invocations so far
    last,       \* history: artifact path -> artifact present when its last resolution ended
    spans,      \* history: the spans the callback received in this chapter
    misses,     \* history: renderer invocations of this process
    rendered,   \* history: every miss of this process left its artifact
    prev,       \* history: how the previous process ended
    faults,     \* history: failed system calls and renders so far
    rpc,        \* overlapping builds: instance -> where its callback is
    rread       \* overlapping builds: instance -> what its renderer read

vars ==
    << input, book, pc, run, idx, events, pos, inside, buffer, out, code,
       output, fs, diag, result, res, spawns, last, spans, misses, rendered,
       prev, faults, rpc, rread >>

racevars == << rpc, rread >>

hist == << res, spawns, last, spans, misses, rendered, prev, faults >>

InitWith(books) ==
    /\ input \in books
    /\ book = input
    /\ pc = "idle"
    /\ run = 1
    /\ idx = 1
    /\ events = <<>>
    /\ pos = 1
    /\ inside = FALSE
    /\ buffer = <<>>
    /\ out = <<>>
    /\ code = ""
    /\ output = NoOutput
    /\ fs = << >>
    /\ diag = <<>>
    /\ result = Pending
    /\ res = NoRes
    /\ spawns = << >>
    /\ last = << >>
    /\ spans = <<>>
    /\ misses = 0
    /\ rendered = TRUE
    /\ prev = NoPrev
    /\ faults = 0
    /\ rpc = [i \in Instances |-> "none"]
    /\ rread = [i \in Instances |-> NoRead]

Init == InitWith(Books)

(***************************************************************************)
(* run, up to the walk over the book's items.                              *)
(***************************************************************************)
OutDir == determine_plantuml_output_directory

\* create_dir_all(&plantuml_build_directory)? succeeds (an existing
\* directory is left as it is).
CreateDirOk ==
    /\ pc = "idle"
    /\ fs' = IF Exists(fs, OutDir) THEN fs ELSE Put(fs, OutDir, Dir)
    /\ diag' = Log(diag, "Info", "PlantUML Preprocessor initiated", "")
    /\ idx' = 1
    /\ pc' = "item"
    /\ UNCHANGED << racevars, input, book, run, events, pos, inside, buffer, out, code,
                    output, result, hist >>

\* create_dir_all fails: the ? operator returns the io::Error to the caller.
CreateDirErr ==
    /\ faults < MaxFaults
    /\ faults' = faults + 1
    /\ pc = "idle"
    /\ ~Exists(fs, OutDir)
    /\ diag' = Log(diag, "Info", "PlantUML Preprocessor initiated", "")
    /\ result' = [ok |-> FALSE, error |-> [kind |-> "io::Error"]]
    /\ pc' = "failed"
    /\ UNCHANGED << racevars, input, book, run, idx, events, pos, inside, buffer, out,
                    code, output, fs, res, spawns, last,
                    spans, misses, rendered, prev >>

\* for_each_mut is over: Ok(book).
ReturnBook ==
    /\ pc = "item"
    /\ idx > Len(book)
    /\ result' = [ok |-> TRUE, book |-> book]
    /\ pc' = "returned"
    /\ UNCHANGED << racevars, input, book, run, idx, events, pos, inside, buffer, out,
                    code, output, fs, diag, hist >>

\* An item that is no chapter is left alone.
SkipItem ==
    /\ pc = "item"
    /\ idx <= Len(book)
    /\ book[idx].item # "Chapter"
    /\ idx' = idx + 1
    /\ UNCHANGED << racevars, input, book, pc, run, events, pos, inside, buffer, out,
                    code, output, fs, diag, result, hist >>

\* A chapter: parse its content and hand the events to rewrite_between.
BeginChapter ==
    /\ pc = "item"
    /\ idx <= Len(book)
    /\ book[idx].item = "Chapter"
    /\ diag' = Log(diag, "Info", "Working Chapter", book[idx].name)
    /\ events' = parse(book[idx].content)
    /\ pos' = 1
    /\ inside' = FALSE
    /\ buffer' = <<>>
    /\ out' = <<>>
    /\ spans' = <<>>
    /\ res' = NoRes
    /\ pc' = "iter"
    /\ UNCHANGED << racevars, input, book, run, idx, code, output, fs, result, spawns,
                    last, misses, rendered, prev, faults >>

(***************************************************************************)
(* markedit::rewrite_between, pulled by cmark one event at a time.         *)
(***************************************************************************)
\* Outside, no start marker: the event is yielded as it is.
PassThrough ==
    /\ pc = "iter"
    /\ pos <= Len(events)
    /\ ~inside
    /\ ~renderable_plantuml_start(events[pos])
    /\ out' = Append(out, events[pos])
    /\ pos' = pos + 1
    /\ UNCHANGED << racevars, input, book, pc, run, idx, events, inside, buffer, code,
                    output, fs, diag, result, hist >>

\* Outside, a start marker: Inside, and buffering begins with the marker.
OpenSpan ==
    /\ pc = "iter"
    /\ pos <= Len(events)
    /\ ~inside
    /\ renderable_plantuml_start(events[pos])
    /\ inside' = TRUE
    /\ buffer' = << events[pos] >>
    /\ pos' = pos + 1
    /\ UNCHANGED << racevars, input, book, pc, run, idx, events, out, code, output, fs,
                    diag, result, hist >>

\* Inside, no end marker: the event is buffered (a second start marker too).
BufferEvent ==
    /\ pc = "iter"
    /\ pos <= Len(events)
    /\ inside
    /\ ~renderable_plantuml_end(events[pos])
    /\ buffer' = Append(buffer, events[pos])
    /\ pos' = pos + 1
    /\ UNCHANGED << racevars, input, book, pc, run, idx, events, inside, out, code,
                    output, fs, diag, result, hist >>

\* Inside, the end marker: it is the span's last event and the callback is
\* called with the buffer.
CloseSpan ==
    /\ pc = "iter"
    /\ pos <= Len(events)
    /\ inside
    /\ renderable_plantuml_end(events[pos])
    /\ buffer' = Append(buffer, events[pos])
    /\ pos' = pos + 1
    /\ spans' = Append(spans, buffer')
    /\ res' = [NoRes EXCEPT !.span = buffer', !.outBefore = out]
    /\ diag' = <<>>
    /\ pc' = "cb_extract"
    /\ UNCHANGED << racevars, input, book, run, idx, events, inside, out, code, output,
                    fs, result, spawns, last, misses, rendered, prev, faults >>

\* The callback has returned: the buffer takes the span's place.
Splice ==
    /\ pc = "emit"
    /\ out' = out \o buffer
    /\ buffer' = <<>>
    /\ inside' = FALSE
    /\ pc' = "iter"
    /\ UNCHANGED << racevars, input, book, run, idx, events, pos, code, output, fs,
                    diag, result, hist >>

\* The stream is exhausted.  Events still buffered are never yielded.
EndOfEvents ==
    /\ pc = "iter"
    /\ pos > Len(events)
    /\ pc' = "serialize"
    /\ UNCHANGED << racevars, input, book, run, idx, events, pos, inside, buffer, out,
                    code, output, fs, diag, result, hist >>

(***************************************************************************)
(* The callback: |events: &mut Vec<Event<'_>>| { ... }                    *)
(***************************************************************************)
\* A mutant of svg_exists: the intermediate file is taken for the artifact.
svg_exists_puml(f, plantuml_code) == Exists(f, puml_filename_of(plantuml_code))

\* A mutant of svg_exists: the intermediate file of an earlier attempt
\* counts as well.
svg_exists_or_attempted(f, plantuml_code) ==
    \/ Exists(f, svg_filename_of(plantuml_code))
    \/ Exists(f, puml_filename_of(plantuml_code))

\* A mutant of svg_exists: the artifact is never found.
svg_exists_never(f, plantuml_code) == FALSE

\* plantuml_svg_filename.exists()
svg_exists(f, plantuml_code) == Exists(f, svg_filename_of(plantuml_code))

\* The span is mapped to its text and cleared; hash and file name follow.
CbExtract ==
    /\ pc = "cb_extract"
    /\ code' = plantuml_code_of(buffer)
    /\ buffer' = <<>>
    /\ diag' = Log(Log(Log(diag, "Trace", "Found plantuml", code'),
                       "Debug", "Plantuml SHA1 hash sum", Sha1(code')),
                   "Debug", "Filename", svg_filename_of(code'))
    /\ res' = [res EXCEPT !.code = code']
    /\ pc' = "cb_exists"
    /\ UNCHANGED << racevars, input, book, run, idx, events, pos, inside, out, output,
                    fs, result, spawns, last, spans, misses, rendered, prev, faults >>

\* if !plantuml_svg_filename.exists(): the artifact is there, nothing to do.
CbHit ==
    /\ pc = "cb_exists"
    /\ svg_exists(fs, code)
    /\ res' = [res EXCEPT !.hit = TRUE, !.fsBefore = fs]
    /\ pc' = "cb_push"
    /\ UNCHANGED << racevars, input, book, run, idx, events, pos, inside, buffer, out,
                    code, output, fs, diag, result, spawns, last, spans,
                    misses, rendered, prev, faults >>

\* A mutant of CbMiss: the render path is taken whether or not the artifact
\* is there.
CbMiss_Unconditional ==
    /\ pc = "cb_exists"
    /\ diag' = Log(diag, "Debug", "SVG doesn't exist, writing PUML data",
                   puml_filename_of(code))
    /\ res' = [res EXCEPT !.hit = FALSE, !.fsBefore = fs]
    /\ pc' = "cb_create"
    /\ UNCHANGED << racevars, input, book, run, idx, events, pos, inside, buffer, out,
                    code, output, fs, result, spawns, last, spans, misses,
                    rendered, prev, faults >>

\* The artifact is absent.
CbMiss ==
    /\ pc = "cb_exists"
    /\ ~svg_exists(fs, code)
    /\ diag' = Log(diag, "Debug", "SVG doesn't exist, writing PUML data",
                   puml_filename_of(code))
    /\ res' = [res EXCEPT !.hit = FALSE, !.fsBefore = fs]
    /\ pc' = "cb_create"
    /\ UNCHANGED << racevars, input, book, run, idx, events, pos, inside, buffer, out,
                    code, output, fs, result, spawns, last, spans, misses,
                    rendered, prev, faults >>

\* File::create(&puml_filename).unwrap(): the file is created or truncated.
CbCreateOk ==
    /\ pc = "cb_create"
    /\ fs' = Put(fs, puml_filename_of(code), File("", FALSE))
    /\ res' = [res EXCEPT !.created = TRUE]
    /\ pc' = "cb_write"
    /\ UNCHANGED << racevars, input, book, run, idx, events, pos, inside, buffer, out,
                    code, output, diag, result, spawns, last, spans, misses,
                    rendered, prev, faults >>

\* File::create fails: unwrap panics.
CbCreateErr ==
    /\ faults < MaxFaults
    /\ faults' = faults + 1
    /\ pc = "cb_create"
    /\ result' = Panic("File::create unwrap")
    /\ pc' = "panicked"
    /\ UNCHANGED << racevars, input, book, run, idx, events, pos, inside, buffer, out,
                    code, output, fs, diag, res, spawns, last,
                    spans, misses, rendered, prev >>

\* write!(puml_file, "{}", plantuml_code) writes the whole text.
CbWriteOk ==
    /\ pc = "cb_write"
    /\ fs' = Put(fs, puml_filename_of(code), File(code, FALSE))
    /\ pc' = "cb_render"
    /\ UNCHANGED << racevars, input, book, run, idx, events, pos, inside, buffer, out,
                    code, output, diag, result, hist >>

\* write! fails part way: its Result is dropped and the callback goes on.
CbWriteErr ==
    /\ faults < MaxFaults
    /\ faults' = faults + 1
    /\ pc = "cb_write"
    /\ code # ""
    /\ fs' = Put(fs, puml_filename_of(code), File(code, TRUE))
    /\ pc' = "cb_render"
    /\ UNCHANGED << racevars, input, book, run, idx, events, pos, inside, buffer, out,
                    code, output, diag, result, res, spawns, last,
                    spans, misses, rendered, prev >>

\* Command::new("/usr/local/bin/plantuml")...output() cannot start the
\* executable: expect panics.
CbSpawnErr ==
    /\ faults < MaxFaults
    /\ faults' = faults + 1
    /\ pc = "cb_render"
    /\ result' = Panic("Failed to run PlantUML")
    /\ pc' = "panicked"
    /\ UNCHANGED << racevars, input, book, run, idx, events, pos, inside, buffer, out,
                    code, output, fs, diag, res, spawns, last,
                    spans, misses, rendered, prev >>

\* plantuml runs to its end on <hash>.puml and may write <hash>.svg.
CbRender ==
    /\ pc = "cb_render"
    /\ \E o \in Outputs :
        /\ (o = CleanOutput \/ faults < MaxFaults)
        /\ faults' = IF o = CleanOutput THEN faults ELSE faults + 1
        /\ output' = o
        /\ fs' = IF o.artifact
                 THEN Put(fs, svg_filename_of(code),
                          Rendered(fs[puml_filename_of(code)]))
                 ELSE fs
        /\ rendered' = (rendered /\ o.artifact)
    /\ spawns' = Put(spawns, svg_filename_of(code),
                     Count(spawns, svg_filename_of(code)) + 1)
    /\ misses' = misses + 1
    /\ res' = [res EXCEPT !.spawned = TRUE,
                          !.failed = (output'.status # 0 \/ ~output'.artifact),
                          !.readShort = fs[puml_filename_of(code)].short]
    /\ pc' = "cb_log"
    /\ UNCHANGED << racevars, input, book, run, idx, events, pos, inside, buffer, out,
                    code, diag, result, last, spans, prev >>

\* The three debug! lines; stdout and stderr are valid UTF-8.
CbLogOk ==
    /\ pc = "cb_log"
    /\ output.utf8
    /\ diag' = Log(Log(Log(diag, "Debug", "PlantUML Exit Status", output.status),
                       "Debug", "PlantUML stdout", svg_filename_of(code)),
                   "Debug", "PlantUML stderr", svg_filename_of(code))
    /\ output' = NoOutput
    /\ pc' = "cb_push"
    /\ UNCHANGED << racevars, input, book, run, idx, events, pos, inside, buffer, out,
                    code, fs, result, hist >>

\* String::from_utf8(output.stdout).unwrap() panics on other bytes, after
\* the exit status has been logged.
CbLogPanic ==
    /\ pc = "cb_log"
    /\ ~output.utf8
    /\ diag' = Log(diag, "Debug", "PlantUML Exit Status", output.status)
    /\ output' = NoOutput
    /\ result' = Panic("String::from_utf8 unwrap")
    /\ pc' = "panicked"
    /\ UNCHANGED << racevars, input, book, run, idx, events, pos, inside, buffer, out,
                    code, fs, hist >>

\* A mutant of CbPush: the image reference is pushed only when the artifact
\* is there.
CbPush_IfArtifact ==
    /\ pc = "cb_push"
    /\ buffer' = IF Exists(fs, svg_filename_of(code))
                 THEN buffer \o image_events(svg_filename_of(code))
                 ELSE buffer
    /\ last' = Put(last, svg_filename_of(code), Exists(fs, svg_filename_of(code)))
    /\ res' = [res EXCEPT !.done = TRUE]
    /\ pc' = "emit"
    /\ UNCHANGED << racevars, input, book, run, idx, events, pos, inside, out, code,
                    output, fs, diag, result, spawns, spans, misses, rendered,
                    prev, faults >>

\* The image reference is pushed and the callback returns.
CbPush ==
    /\ pc = "cb_push"
    /\ buffer' = buffer \o image_events(svg_filename_of(code))
    /\ last' = Put(last, svg_filename_of(code), Exists(fs, svg_filename_of(code)))
    /\ res' = [res EXCEPT !.done = TRUE]
    /\ pc' = "emit"
    /\ UNCHANGED << racevars, input, book, run, idx, events, pos, inside, out, code,
                    output, fs, diag, result, spawns, spans, misses, rendered,
                    prev, faults >>

(***************************************************************************)
(* Back in run: the chapter's content is replaced.                         *)
(***************************************************************************)
\* current_chapter.content = cmark(mutated_events_iterator, ...).unwrap()
Serialize ==
    /\ pc = "serialize"
    /\ book' = [book EXCEPT ![idx].content = cmark(out)]
    /\ idx' = idx + 1
    /\ pc' = "item"
    /\ UNCHANGED << racevars, input, run, events, pos, inside, buffer, out, code,
                    output, fs, diag, result, hist >>

\* The process has ended; the next one gets the same book and finds the
\* file system as this one left it.
NewRun ==
    /\ pc \in { "returned", "failed", "panicked" }
    /\ run < MaxRuns
    /\ prev' = [ended |-> pc, book |-> book, misses |-> misses,
                rendered |-> rendered]
    /\ run' = run + 1
    /\ book' = input
    /\ pc' = "idle"
    /\ idx' = 1
    /\ events' = <<>>
    /\ pos' = 1
    /\ inside' = FALSE
    /\ buffer' = <<>>
    /\ out' = <<>>
    /\ code' = ""
    /\ output' = NoOutput
    /\ diag' = <<>>
    /\ result' = Pending
    /\ res' = NoRes
    /\ spans' = <<>>
    /\ misses' = 0
    /\ rendered' = TRUE
    /\ UNCHANGED << racevars, input, fs, spawns, last, faults >>

Next ==
    \/ CreateDirOk
    \/ CreateDirErr
    \/ ReturnBook
    \/ SkipItem
    \/ BeginChapter
    \/ PassThrough
    \/ OpenSpan
    \/ BufferEvent
    \/ CloseSpan
    \/ Splice
    \/ EndOfEvents
    \/ CbExtract
    \/ CbHit
    \/ CbMiss
    \/ CbCreateOk
    \/ CbCreateErr
    \/ CbWriteOk
    \/ CbWriteErr
    \/ CbSpawnErr
    \/ CbRender
    \/ CbLogOk
    \/ CbLogPanic
    \/ CbPush
    \/ Serialize
    \/ NewRun

Spec == Init /\ [][Next]_vars

InitTags == InitWith(TagBooks)

SpecTags == InitTags /\ [][Next]_vars

InitText == InitWith(TextBooks)

SpecText == InitText /\ [][Next]_vars

(***************************************************************************)
(* Properties.                                                             *)
(***************************************************************************)
\* The callback has evaluated plantuml_svg_filename.exists() and has not
\* returned yet.
Resolving == pc \in { "cb_create", "cb_write", "cb_render", "cb_log", "cb_push" }

\* The artifact path of the resolution under way (or of the last one).
ResSvg == svg_filename_of(res.code)

\* C1 (as stated): whatever the renderer does, a diagram source is rendered
\* at most once in total, and a resolution of a source that has been
\* resolved before starts no subprocess.
C1_AtMostOneInvocationWhateverOutcome ==
    /\ \A p \in DOMAIN spawns : spawns[p] <= 1
    /\ (Resolving /\ ResSvg \in DOMAIN last) => ~res.spawned

\* C1 (amended): once a resolution of a source has ended with its artifact
\* present, every later resolution of that source (same chapter, another
\* chapter, a later process) starts no subprocess; a resolution that finds
\* the artifact present never starts one.
C1_NoInvocationOnceArtifactPresent ==
    /\ (Resolving /\ ResSvg \in DOMAIN last /\ last[ResSvg]) => ~res.spawned
    /\ (Resolving /\ Exists(res.fsBefore, ResSvg)) => ~res.spawned

\* C1 witness: a second resolution of a source whose first resolution
\* invoked the renderer once and left the artifact; it is a hit.
C1_Witness ==
    /\ pc = "cb_push"
    /\ ResSvg \in DOMAIN last
    /\ last[ResSvg]
    /\ Count(spawns, ResSvg) = 1
    /\ res.hit

\* C2: a resolution that finds <fingerprint>.svg present is a hit, and a hit
\* starts no subprocess, creates or truncates no .puml file and leaves every
\* file under the output directory as it was; what it leaves behind is the
\* image reference in the span's place.
C2_HitChangesNothing ==
    /\ (Resolving \/ res.done) => (res.hit <=> Exists(res.fsBefore, ResSvg))
    /\ res.hit =>
        /\ fs = res.fsBefore
        /\ ~res.spawned
        /\ ~res.created
        /\ pc \notin { "cb_create", "cb_write", "cb_render", "cb_log" }
        /\ pc = "emit" => /\ buffer = image_events(ResSvg)
                          /\ out = res.outBefore

\* C2 witness: a hit has been spliced into the output.
C2_Witness ==
    /\ pc = "iter"
    /\ res.done
    /\ res.hit
    /\ Exists(fs, puml_filename_of(res.code))

\* The image reference that stands for a span.
ImageReferenceOf(span) ==
    LET dest == determine_plantuml_output_directory \o "/"
                \o Sha1(plantuml_code_of(span)) \o ".svg"
    IN  << [kind |-> "Start",
            tag |-> [tag |-> "Image", link |-> "Inline", dest |-> dest, title |-> ""]],
           [kind |-> "End",
            tag |-> [tag |-> "Image", link |-> "Inline", dest |-> dest, title |-> ""]],
           [kind |-> "SoftBreak"] >>

IsStartMarker(ev) ==
    ev = [kind |-> "Start",
          tag |-> [tag |-> "CodeBlock", block |-> "Fenced", lang |-> "plantuml,render"]]

IsEndMarker(ev) ==
    ev = [kind |-> "End",
          tag |-> [tag |-> "CodeBlock", block |-> "Fenced", lang |-> "plantuml,render"]]

\* The least position from i on that holds a marker (0: none).
FirstFrom(evs, i, Marker(_)) ==
    LET S == { k \in i..Len(evs) : Marker(evs[k]) }
    IN  IF S = {} THEN 0 ELSE CHOOSE k \in S : \A m \in S : k <= m

\* The matched spans from position i on, as << start, end >> positions: a
\* span runs from the first start marker to the first end marker after it,
\* and the search goes on behind that end marker.
RECURSIVE MatchedFrom(_, _)
MatchedFrom(evs, i) ==
    LET s == FirstFrom(evs, i, IsStartMarker)
        e == IF s = 0 THEN 0 ELSE FirstFrom(evs, s + 1, IsEndMarker)
    IN  IF s = 0 \/ e = 0 THEN <<>>
        ELSE << << s, e >> >> \o MatchedFrom(evs, e + 1)

Matched(evs) == MatchedFrom(evs, 1)

SpansOf(evs) ==
    LET m == Matched(evs)
    IN  [k \in 1..Len(m) |-> SubSeq(evs, m[k][1], m[k][2])]

\* A start marker behind the last matched span: the stream ends Inside.
Unterminated(evs) ==
    LET m == Matched(evs)
        from == IF m = <<>> THEN 1 ELSE m[Len(m)][2] + 1
    IN  FirstFrom(evs, from, IsStartMarker) # 0

\* The stream with every matched span replaced by its image reference and
\* every other event kept.
RewrittenOf(evs) ==
    LET m == Matched(evs)
        F[k \in 0..Len(evs)] ==
            IF k = 0 THEN <<>>
            ELSE IF \E j \in 1..Len(m) : m[j][2] = k
                 THEN LET j == CHOOSE j \in 1..Len(m) : m[j][2] = k
                      IN  F[k - 1] \o ImageReferenceOf(SubSeq(evs, m[j][1], k))
                 ELSE IF \E j \in 1..Len(m) : m[j][1] <= k /\ k <= m[j][2]
                      THEN F[k - 1]
                      ELSE Append(F[k - 1], evs[k])
    IN  F[Len(evs)]

\* The rewriter is at work on a chapter.
InChapter ==
    pc \in { "iter", "emit", "serialize", "cb_extract", "cb_exists",
             "cb_create", "cb_write", "cb_render", "cb_log", "cb_push" }

C5_ExactTagOpensAndCloses ==
    /\ [][ (pc = "iter" /\ pos <= Len(events)) =>
            /\ ~inside => (inside' <=> IsStartMarker(events[pos]))
            /\ inside => ((pc' = "cb_extract") <=> IsEndMarker(events[pos]))
         ]_vars
    /\ []( (\A i \in 1..Len(input) :
              input[i].item = "Chapter" =>
                 \A k \in 1..Len(parse(input[i].content)) :
                    ~IsStartMarker(parse(input[i].content)[k]))
           => /\ DOMAIN fs \subseteq { determine_plantuml_output_directory }
              /\ spawns = << >>
              /\ spans = <<>>
              /\ ~inside
              /\ pc \notin { "emit", "cb_extract", "cb_exists", "cb_create",
                             "cb_write", "cb_render", "cb_log", "cb_push" }
              /\ InChapter => out = SubSeq(events, 1, pos - 1)
              /\ pc = "returned" => book = input )

\* C5 witness: a block tagged "plantuml,render,svg" and one tagged
\* "PlantUML,Render" went through untouched.
C5_Witness ==
    /\ pc = "returned"
    /\ book = input
    /\ \E k \in 1..Len(parse(input[1].content)) :
          parse(input[1].content)[k] = Start(Fenced("plantuml,render,svg"))
    /\ \E k \in 1..Len(parse(input[1].content)) :
          parse(input[1].content)[k] = End(Fenced("PlantUML,Render"))

\* C6 (as stated): a renderer that fails on a miss (non-zero exit, or no
\* artifact) does not crash the process; the failure is on the diagnostic
\* channel and the image reference is emitted all the same.
C6_RenderFailureDoesNotCrash ==
    /\ res.failed => pc # "panicked"
    /\ (res.failed /\ pc \in { "cb_push", "emit" }) =>
          \E i \in 1..Len(diag) : diag[i].msg = "PlantUML Exit Status"
    /\ (res.failed /\ pc = "emit") => buffer = ImageReferenceOf(res.span)

\* C7: the callback receives the matched spans one by one in document
\* order, each exactly from its start marker through its end marker, and
\* the diagram source of each is the text of that span alone; what the
\* callback put in place of earlier spans plays no part.
C7_SpansAreIndependent ==
    InChapter =>
        /\ spans = SpansOf(SubSeq(events, 1, pos - 1))
        /\ (Resolving \/ pc \in { "cb_exists", "emit" }) =>
              /\ res.span = spans[Len(spans)]
              /\ res.code = plantuml_code_of(spans[Len(spans)])

\* C7 witness: two spans with different diagrams and a text run between.
C7_Witness ==
    /\ pc = "serialize"
    /\ Len(spans) = 2
    /\ spans[1] # spans[2]
    /\ Matched(events)[2][1] > Matched(events)[1][2] + 1

C9_FilesystemFailureIsAnErrorValue ==
    /\ pc = "panicked" => result.panic # "File::create unwrap"
    /\ res.spawned => ~res.readShort

\* C10: a process that returns its book after an earlier process returned
\* its book for the same input returns the same contents, whatever the two
\* found in the output directory and whatever the renderer did; and when
\* every render of the earlier process left its artifact, the later process
\* starts no renderer.
C10_OutputIndependentOfCacheAndRenderer ==
    (pc = "returned" /\ prev.ended = "returned") =>
        /\ book = prev.book
        /\ prev.rendered => misses = 0

\* C10 witness: the earlier process rendered twice and one render left no
\* artifact; the later process rendered that diagram again, with success.
C10_Witness ==
    /\ pc = "returned"
    /\ prev.ended = "returned"
    /\ prev.misses = 2
    /\ ~prev.rendered
    /\ misses = 1
    /\ rendered


(***************************************************************************)
(* Overlapping builds: every instance runs the callback (main.rs 122-165)  *)
(* for the same diagram against the same output directory.  The file       *)
(* system calls of the instances and the reads and writes of their         *)
(* plantuml subprocesses interleave freely; nothing in the callback locks. *)
(***************************************************************************)
\* Books of one chapter that holds a matched span.
RaceBooks ==
    { << Chapter("c1", d) >> : d \in { s \in Segments : Matched(s) # <<>> } }

\* The diagram every instance resolves: the first span of the chapter.
RaceCode(b) == plantuml_code_of(SpansOf(parse(b[1].content))[1])

\* What earlier builds may have left in the output directory: nothing, the
\* intermediate file of a render that left no artifact, or both files.
RaceDirs(c) ==
    LET d0 == Put(<< >>, determine_plantuml_output_directory, Dir)
        d1 == Put(d0, puml_filename_of(c), File(c, FALSE))
        d2 == Put(d1, svg_filename_of(c), Rendered(File(c, FALSE)))
    IN  { d0, d1, d2 }

InitRace ==
    /\ input \in RaceBooks
    /\ book = input
    /\ pc = "idle"
    /\ run = 1
    /\ idx = 1
    /\ events = <<>>
    /\ pos = 1
    /\ inside = FALSE
    /\ buffer = <<>>
    /\ out = <<>>
    /\ code = RaceCode(input)
    /\ output = NoOutput
    /\ fs \in RaceDirs(code)
    /\ diag = <<>>
    /\ result = Pending
    /\ res = NoRes
    /\ spawns = << >>
    /\ last = << >>
    /\ spans = <<>>
    /\ misses = 0
    /\ rendered = TRUE
    /\ prev = NoPrev
    /\ faults = 0
    /\ rpc = [i \in Instances |-> "cb_exists"]
    /\ rread = [i \in Instances |-> NoRead]

single ==
    << input, book, pc, run, idx, events, pos, inside, buffer, out, code,
       output, diag, result, hist >>

\* if !plantuml_svg_filename.exists(): the artifact is there.
RaceHit(i) ==
    /\ rpc[i] = "cb_exists"
    /\ svg_exists(fs, code)
    /\ rpc' = [rpc EXCEPT ![i] = "cb_push"]
    /\ UNCHANGED << single, fs, rread >>

\* The artifact is absent.
RaceMiss(i) ==
    /\ rpc[i] = "cb_exists"
    /\ ~svg_exists(fs, code)
    /\ rpc' = [rpc EXCEPT ![i] = "cb_create"]
    /\ UNCHANGED << single, fs, rread >>

\* File::create(&puml_filename): the file is created, or truncated when
\* it is there, whoever wrote it.
RaceCreate(i) ==
    /\ rpc[i] = "cb_create"
    /\ fs' = Put(fs, puml_filename_of(code), File("", FALSE))
    /\ rpc' = [rpc EXCEPT ![i] = "cb_write"]
    /\ UNCHANGED << single, rread >>

\* write!(puml_file, "{}", plantuml_code)
RaceWrite(i) ==
    /\ rpc[i] = "cb_write"
    /\ fs' = Put(fs, puml_filename_of(code), File(code, FALSE))
    /\ rpc' = [rpc EXCEPT ![i] = "cb_render"]
    /\ UNCHANGED << single, rread >>

\* The instance's plantuml subprocess reads <hash>.puml as it is now.
RendererRead(i) ==
    /\ rpc[i] = "cb_render"
    /\ rread' = [rread EXCEPT ![i] = fs[puml_filename_of(code)]]
    /\ rpc' = [rpc EXCEPT ![i] = "rendering"]
    /\ UNCHANGED << single, fs >>

\* The subprocess writes <hash>.svg, the picture of what it read, over
\* whatever is there, and exits.
RendererWrite(i) ==
    /\ rpc[i] = "rendering"
    /\ fs' = Put(fs, svg_filename_of(code), Rendered(rread[i]))
    /\ rpc' = [rpc EXCEPT ![i] = "cb_log"]
    /\ UNCHANGED << single, rread >>

\* The subprocess has read something that is not the whole diagram; it
\* may find no diagram in it and exit without writing an artifact.
RendererGivesUp(i) ==
    /\ rpc[i] = "rendering"
    /\ rread[i] # File(code, FALSE)
    /\ rpc' = [rpc EXCEPT ![i] = "cb_log"]
    /\ UNCHANGED << single, fs, rread >>

\* output() has returned; the three debug! lines.
RaceLog(i) ==
    /\ rpc[i] = "cb_log"
    /\ rpc' = [rpc EXCEPT ![i] = "cb_push"]
    /\ UNCHANGED << single, fs, rread >>

\* The image reference is pushed and the callback returns.
RacePush(i) ==
    /\ rpc[i] = "cb_push"
    /\ rpc' = [rpc EXCEPT ![i] = "done"]
    /\ UNCHANGED << single, fs, rread >>

NextRace ==
    \E i \in Instances :
        \/ RaceHit(i)
        \/ RaceMiss(i)
        \/ RaceCreate(i)
        \/ RaceWrite(i)
        \/ RendererRead(i)
        \/ RendererWrite(i)
        \/ RendererGivesUp(i)
        \/ RaceLog(i)
        \/ RacePush(i)

SpecRace == InitRace /\ [][NextRace]_vars

\* C11 (as stated): whatever the interleaving of the instances, no
\* renderer reads an intermediate file that is truncated or written in
\* part, and the artifact, once there, is the render of the whole diagram
\* source.
C11_RaceLeavesCompleteRender ==
    /\ \A i \in Instances : rread[i] # NoRead => rread[i] = File(code, FALSE)
    /\ Exists(fs, svg_filename_of(code)) =>
          fs[svg_filename_of(code)] = Rendered(File(code, FALSE))


\* The artifact files of a file system.
Artifacts(f) == { p \in DOMAIN f : "render_of" \in DOMAIN f[p] }

\* C12: in a sequence of single-threaded processes, an artifact that is in
\* the output directory stays there with the same content in every step
\* (so it is created at most once, never rewritten and never deleted), and
\* a step that starts the renderer for a diagram is taken only when that
\* diagram's artifact is absent.
C12_ArtifactWrittenOnceWhenAbsent ==
    [][ /\ \A p \in Artifacts(fs) : p \in DOMAIN fs' /\ fs'[p] = fs[p]
        /\ spawns' # spawns =>
              /\ ~Exists(fs, svg_filename_of(code))
              /\ Artifacts(fs') \subseteq Artifacts(fs) \cup { svg_filename_of(code) }
        /\ spawns' = spawns => Artifacts(fs') = Artifacts(fs)
      ]_vars

\* C12 witness: a later process has rendered a diagram whose artifact was
\* absent, next to an artifact that an earlier process left and that is
\* still as it was.
C12_Witness ==
    /\ run = 2
    /\ pc = "cb_push"
    /\ res.spawned
    /\ Exists(fs, ResSvg)
    /\ ~Exists(res.fsBefore, ResSvg)
    /\ \E p \in Artifacts(res.fsBefore) : p # ResSvg /\ fs[p] = res.fsBefore[p]


\* A chapter of the input without a start marker: every event of it is
\* passed through.
PassThroughOnly(i) ==
    /\ input[i].item = "Chapter"
    /\ \A k \in 1..Len(parse(input[i].content)) :
          ~IsStartMarker(parse(input[i].content)[k])

\* C13 (as stated): when run has returned, a chapter that held only
\* pass-through events has the text it had, piece by piece as its author
\* spelled it.
C13_PassThroughChapterKeepsItsText ==
    pc = "returned" =>
        \A i \in 1..Len(input) :
            PassThroughOnly(i) => book[i].content = input[i].content


\* C14 (as stated): on a miss the steps of one resolution come in this
\* order: the artifact is found absent; <hash>.puml is created and the
\* diagram source written to it; the renderer is started on that file; the
\* image reference is pushed.  The renderer is started only on a file this
\* resolution has written, and the callback returns only after the
\* renderer has exited.
C14_MissStepsInOrder ==
    /\ pc \in { "cb_create", "cb_write", "cb_render", "cb_log" } =>
          /\ ~res.hit
          /\ ~Exists(res.fsBefore, ResSvg)
    /\ pc \in { "cb_write", "cb_render", "cb_log" } => res.created
    /\ pc = "cb_render" =>
          /\ ~res.spawned
          /\ fs[puml_filename_of(code)] = File(code, FALSE)
    /\ res.spawned =>
          /\ res.created
          /\ ~res.readShort
          /\ pc \notin { "cb_exists", "cb_create", "cb_write", "cb_render" }
    /\ (res.done /\ ~res.hit) => (res.spawned /\ output = NoOutput)


\* The text events of a span, in order.
TextsOf(span) == SelectSeq(span, LAMBDA ev : ev.kind = "Text")

\* The texts of a row of text events, one after the other.
Concat(texts) ==
    LET F[k \in 0..Len(texts)] ==
            IF k = 0 THEN "" ELSE F[k - 1] \o texts[k].text
    IN  F[Len(texts)]

\* C15: the diagram source of a resolution is the text of the span's Text
\* events, one after the other in span order, and nothing else; it is what
\* is hashed and what is written to <hash>.puml, and the image reference
\* names <hash>.svg.  Two spans of a chapter with the same Text events in
\* the same order have the same source, hence the same hash and path.
C15_SourceIsTextOfSpan ==
    /\ (Resolving \/ pc \in { "cb_exists", "emit" }) =>
          /\ code = Concat(TextsOf(res.span))
          /\ res.code = code
    /\ pc = "cb_render" =>
          /\ ~res.readShort => fs[puml_filename_of(code)].bytes = Concat(TextsOf(res.span))
          /\ puml_filename_of(code) =
                OutDir \o "/" \o Sha1(Concat(TextsOf(res.span))) \o ".puml"
    /\ pc = "emit" =>
          buffer[1].tag.dest =
             OutDir \o "/" \o Sha1(Concat(TextsOf(res.span))) \o ".svg"
    /\ \A a, b \in 1..Len(spans) :
          TextsOf(spans[a]) = TextsOf(spans[b]) =>
             svg_filename_of(plantuml_code_of(spans[a]))
                = svg_filename_of(plantuml_code_of(spans[b]))

\* C15 witness: a span that holds two start markers and two Text events (a
\* start marker met Inside is buffered) is being rendered; its source is
\* the two texts.
C15_Witness ==
    /\ pc = "cb_render"
    /\ Len(TextsOf(res.span)) = 2
    /\ Len(res.span) = 5
    /\ code = "AA"
    /\ fs[puml_filename_of(code)].bytes = "AA"


\* The events of the spans together.
SumLen(ss) ==
    LET F[k \in 0..Len(ss)] == IF k = 0 THEN 0 ELSE F[k - 1] + Len(ss[k])
    IN  F[Len(ss)]

\* The spans whose image reference has been yielded.
Spliced ==
    IF pc \in { "cb_extract", "cb_exists", "cb_create", "cb_write",
                "cb_render", "cb_log", "cb_push", "emit" }
    THEN Len(spans) - 1
    ELSE Len(spans)

\* C16: the matcher is Outside or Inside one region.  In every step of the
\* rewriter one event is consumed, the next in the stream; a start marker
\* met Inside is buffered and opens nothing; while Inside nothing is
\* yielded until the callback has returned for the whole span.  In every
\* state the buffer is empty when the matcher is Outside, the callback has
\* been called once for each matched span of the events consumed, and every
\* consumed event is in exactly one place: yielded as it came, buffered in
\* the open region, or in a span the callback received.
C16_OneRegionOnePass ==
    /\ [][ /\ (pc = "iter" /\ pos <= Len(events)) => pos' = pos + 1
           /\ (InChapter /\ ~(pc = "iter" /\ pos <= Len(events))) => pos' = pos
           /\ (pc = "iter" /\ pos <= Len(events) /\ inside
                 /\ IsStartMarker(events[pos])) =>
                 /\ inside'
                 /\ buffer' = Append(buffer, events[pos])
                 /\ spans' = spans
                 /\ pc' = "iter"
           /\ (InChapter /\ inside /\ pc # "emit") => out' = out
           /\ (pc = "emit") => (res.done /\ out' = out \o buffer /\ ~inside')
         ]_vars
    /\ []( InChapter =>
            /\ ~inside => buffer = <<>>
            /\ ~inside => pc \in { "iter", "serialize" }
            /\ Len(spans) = Len(Matched(SubSeq(events, 1, pos - 1)))
            /\ pos - 1 = (Len(out) - Spliced * Len(image_events(""))) + SumLen(spans)
                         + (IF inside /\ pc \in { "iter", "serialize" }
                            THEN Len(buffer) ELSE 0) )

\* C16 witness: a chapter has been consumed in which a region held a
\* second start marker; the callback was called once, for the one span,
\* and the matcher is Outside with an empty buffer.
C16_Witness ==
    /\ pc = "serialize"
    /\ ~inside
    /\ buffer = <<>>
    /\ Len(spans) = 1
    /\ \E k \in 2..Len(spans[1]) : IsStartMarker(spans[1][k])
    /\ pos = Len(events) + 1
    /\ Len(out) = Len(image_events(""))


\* The renderer has run for the diagram of this resolution before this
\* resolution, and when this resolution looked the artifact was absent
\* (no artifact is ever removed, so every one of those renders left none).
RenderedInVainBefore ==
    /\ Resolving \/ res.done
    /\ Count(spawns, ResSvg) - (IF res.spawned THEN 1 ELSE 0) >= 1
    /\ ~Exists(res.fsBefore, ResSvg)

\* C17: failed renders are not remembered.  A resolution of a diagram whose
\* earlier renders left no artifact finds <hash>.puml there and is a miss
\* all the same: it goes on to File::create, which truncates the file, to
\* the write and to the renderer, and when its callback returns the
\* renderer has been started once more.
C17_NoNegativeCaching ==
    RenderedInVainBefore =>
        /\ ~res.hit
        /\ Exists(res.fsBefore, puml_filename_of(res.code))
        /\ pc = "cb_write" => fs[puml_filename_of(code)] = File("", FALSE)
        /\ pc \in { "cb_write", "cb_render", "cb_log" } => res.created
        /\ (pc \in { "cb_log", "cb_push" } \/ res.done) =>
              /\ res.created
              /\ res.spawned
              /\ Count(spawns, ResSvg) >= 2
              /\ fs[puml_filename_of(res.code)].bytes = res.code

\* C17 witness: the second render of a diagram, after a first that left no
\* artifact, has written the artifact.
C17_Witness ==
    /\ RenderedInVainBefore
    /\ res.done
    /\ Count(spawns, ResSvg) = 2
    /\ Exists(fs, ResSvg)
    /\ ~Exists(res.fsBefore, ResSvg)

=============================================================================
